---- MODULE Spec2Model ----
(***************************************************************************)
(* Model of the remediation agent of src/mcp-server/ai_agent_new.py:       *)
(* the monitor loop, the problem detector, the restart policy kept in      *)
(* restart_history, the oracle client and the fix dispatcher.              *)
(*                                                                         *)
(* Time is in seconds.  The control plane (kubectl), the snapshot source   *)
(* and the oracle are the environment: every answer they can give is an    *)
(* input of the action that consumes it.                                   *)
(***************************************************************************)
EXTENDS Integers, Sequences, FiniteSets, TLC

(***************************************************************************)
(* Program constants.                                                      *)
(***************************************************************************)
CHECK_INTERVAL == 15
RESTART_COOLDOWN == 300
MAX_RESTARTS == 2
PROTECTED_NAMESPACES == {"kube-system", "monitoring", "prometheus", "grafana"}

(***************************************************************************)
(* Bounds of the model.                                                    *)
(***************************************************************************)
\* number of cycles of the monitor loop that are explored
MaxCycles == 2

\* time.time() when the monitor starts: epoch seconds, far beyond the
\* cooldown window (any value >= RESTART_COOLDOWN behaves alike)
StartTime == 4 * RESTART_COOLDOWN

\* seconds one remediation attempt can take (collector, oracle and kubectl
\* calls; the patch and delete calls carry no timeout): no time, or a full
\* cooldown window
AttemptDurations == {0, RESTART_COOLDOWN}

(***************************************************************************)
(* Python values.                                                          *)
(***************************************************************************)
\* Python's None as an outcome tag (a function that falls off its end)
PyNone == "<None>"
\* a key that the JSON object does not have
ABSENT == "<absent>"
\* JSON null as the value of a key that is present
JNull == "<null>"

\* "sub in s" on Python strings
Contains(sub, s) ==
    \E i \in 1..(Len(s) - Len(sub) + 1) : SubSeq(s, i, i + Len(sub) - 1) = sub

(***************************************************************************)
(* Oracle verdicts: JSON objects, with the keys whose values the agent     *)
(* branches on (root_cause and fix_action are only printed and logged).    *)
(***************************************************************************)
FixTypeValues == {"config", "resources", "image", "app_code", "restart",
                  "manual", "unknown"}
EmptyObject ==
    [fix_type |-> ABSENT, should_restart |-> ABSENT, severity |-> ABSENT]

\* the empty object, and objects that have a severity (a string or null) and
\* may lack the other two keys
VerdictObjects ==
    {EmptyObject}
    \cup [fix_type       : FixTypeValues \cup {ABSENT},
          should_restart : {ABSENT, "true", "false"},
          severity       : {"high", JNull}]

\* dict.get(key, default)
Get(d, key, default) == IF d[key] = ABSENT THEN default ELSE d[key]

\* JSON values json.loads can return: an object, or a value of another kind
\* of which only the truth value matters ("falsy": 0, "", [], false, null)
JsonValues ==
    [type : {"object"}, obj : VerdictObjects, falsy : {FALSE}]
    \cup [type : {"array", "number", "string", "bool"}, obj : {EmptyObject},
          falsy : BOOLEAN]
    \cup [type : {"null"}, obj : {EmptyObject}, falsy : {TRUE}]

JObject(o) == [type |-> "object", obj |-> o, falsy |-> FALSE]

\* Python's None as a value: json.loads("null") and every failure path of
\* ask_ai_for_diagnosis give this same value
NoneValue == [type |-> "null", obj |-> EmptyObject, falsy |-> TRUE]

\* Python truth value of what ask_ai_for_diagnosis returned
Truthy(v) ==
    IF v.type = "object" THEN v.obj # EmptyObject ELSE ~v.falsy

(***************************************************************************)
(* The oracle's HTTP reply and its parsing.                                *)
(*   transport_error  requests.post raised (connection error, timeout)     *)
(*   bad_body         the HTTP body is not a JSON object                   *)
(*   empty            no "response" key, or an empty string                *)
(*   json             the response text is one JSON document (value)       *)
(*   embedded         prose around one JSON object (value)                 *)
(*   broken           prose around braces that do not parse                *)
(*   prose            text without any brace-delimited part                *)
(* fenced: the text is wrapped in a ``` code fence.                        *)
(***************************************************************************)
SampleObjects ==
    {o \in VerdictObjects :
        /\ o.severity = "high"
        /\ o.fix_type \in {"restart", "config"} /\ o.should_restart = "true"}

OllamaReplies ==
    [kind : {"transport_error", "bad_body", "empty", "broken", "prose"},
     fenced : {FALSE}, value : {NoneValue}]
    \cup [kind : {"json"}, fenced : {FALSE}, value : JsonValues]
    \cup [kind : {"json", "embedded"}, fenced : BOOLEAN,
          value : {JObject(o) : o \in SampleObjects}]

\* the two re.sub calls that remove a leading and a trailing code fence
StripFence(reply) == [reply EXCEPT !.fenced = FALSE]

\* json.loads(response_text) succeeds
DirectParse(reply) == reply.kind = "json" /\ ~reply.fenced

\* re.search finds a brace-delimited substring
HasBraces(reply) ==
    \/ reply.kind \in {"embedded", "broken"}
    \/ reply.kind = "json" /\ reply.value.type = "object"

ask_ai_for_diagnosis(reply) ==
    IF reply.kind \in {"transport_error", "bad_body"} THEN NoneValue
    ELSE IF reply.kind = "empty" THEN NoneValue
    ELSE LET text == StripFence(reply) IN
         IF DirectParse(text) THEN text.value
         ELSE IF HasBraces(text) /\ text.kind # "broken" THEN text.value
         ELSE NoneValue

(***************************************************************************)
(* Answers of the control plane to the kubectl calls of one dispatch.      *)
(*   check    kubectl get pod, as read by check_if_managed_pod             *)
(*   owner    kubectl get pod / get replicaset, as read by                 *)
(*            get_pod_owner_deployment                                     *)
(*   podRead  kubectl get pod in the resources branch                      *)
(*   patch    outcome of kubectl patch deployment                          *)
(*   delete   outcome of kubectl delete pod                                *)
(***************************************************************************)
\* "failed": a non-zero return code, a timeout or unparsable output
CheckAnswers == {"owned", "no_owner", "failed"}
OwnerAnswers == {"rs_of_deployment", "rs_without_deployment", "statefulset",
                 "no_owner", "failed"}
PodReadAnswers == {"containers", "no_containers", "not_found", "timeout"}
\* kubectl patch and kubectl delete are run without a timeout (lines 361-366,
\* 410-414, 426-430): when the control plane never answers, neither returns
NoAnswer == "no_answer"
PatchAnswers == {"patched", "rejected", NoAnswer}
DeleteAnswers == {"deleted", "rejected", NoAnswer}

\* result.returncode == 0
ReturnCodeZero(answer) == answer \in {"patched", "deleted"}

DeploymentName == "web"
ReplicaSetName == "web-5d4f8"
StatefulSetName == "web-sts"

\* the answer slot of a call that the dispatch did not make
NotCalled == "not_called"

AnswersOf(c, o, r, p, x) ==
    [check |-> c, owner |-> o, podRead |-> r, patch |-> p, delete |-> x]

\* check_if_managed_pod reporting a failed lookup as managed
check_if_managed_pod_FailOpen(answer) ==
    IF answer = "owned" THEN TRUE
    ELSE IF answer = "no_owner" THEN FALSE
    ELSE TRUE

\* the first component of check_if_managed_pod's result
check_if_managed_pod(answer) ==
    IF answer = "owned" THEN TRUE
    ELSE IF answer = "no_owner" THEN FALSE
    ELSE FALSE

\* the name get_pod_owner_deployment returns, or PyNone
get_pod_owner_deployment(answer) ==
    CASE answer = "rs_of_deployment" -> DeploymentName
      [] answer = "rs_without_deployment" -> ReplicaSetName
      [] answer = "statefulset" -> StatefulSetName
      [] OTHER -> PyNone

(***************************************************************************)
(* apply_fix: the outcome tag and the mutating calls it issued.            *)
(***************************************************************************)
Outcome(tag, deleted, patched) ==
    [tag |-> tag, deleted |-> deleted, patched |-> patched]

\* in place of a tag: apply_fix is blocked in subprocess.run for ever
Hangs == "<never returns>"

\* subprocess.run(["kubectl", "delete", "pod", ...]) followed by return tag
DeletePod(answer, tag) ==
    Outcome(IF answer = NoAnswer THEN Hangs ELSE tag, TRUE, FALSE)

\* bool(diagnosis.get("should_restart"))
ShouldRestart(diagnosis) ==
    Get(diagnosis, "should_restart", PyNone) = "true"

apply_fix_resources(cp) ==
    LET deployment == get_pod_owner_deployment(cp.owner) IN
    IF deployment # PyNone
    THEN CASE cp.podRead = "timeout" -> Outcome("RESOURCE_FIX_FAILED", FALSE, FALSE)
           [] cp.podRead = "not_found" -> Outcome(PyNone, FALSE, FALSE)
           [] cp.podRead = "no_containers" -> Outcome(PyNone, FALSE, FALSE)
           [] cp.podRead = "containers" ->
                IF cp.patch = NoAnswer THEN Outcome(Hangs, FALSE, TRUE)
                ELSE IF ReturnCodeZero(cp.patch)
                THEN Outcome("RESOURCES_FIXED", FALSE, TRUE)
                ELSE Outcome("RESOURCE_FIX_FAILED", FALSE, TRUE)
    ELSE Outcome("MANUAL_RESOURCE_FIX_NEEDED", FALSE, FALSE)

\* the restart branch tested before the hand-off branches
apply_fix_RestartFirst(diagnosis, cp) ==
    LET fix_type == Get(diagnosis, "fix_type", "")
        is_managed == check_if_managed_pod(cp.check)
    IN  IF fix_type = "resources" THEN apply_fix_resources(cp)
        ELSE IF fix_type = "app_code"
        THEN IF ~is_managed
             THEN Outcome("APP_CODE_FIX_NEEDED_NO_DELETE", FALSE, FALSE)
             ELSE IF ShouldRestart(diagnosis)
                  THEN DeletePod(cp.delete, "RESTARTED_FOR_LOGS")
                  ELSE Outcome("APP_CODE_FIX_NEEDED", FALSE, FALSE)
        ELSE IF fix_type = "restart" \/ ShouldRestart(diagnosis)
        THEN IF ~is_managed
             THEN Outcome("STANDALONE_POD_NO_DELETE", FALSE, FALSE)
             ELSE DeletePod(cp.delete, "RESTARTED")
        ELSE IF fix_type = "config"
        THEN Outcome("CONFIG_FIX_NEEDED", FALSE, FALSE)
        ELSE IF fix_type = "image"
        THEN IF get_pod_owner_deployment(cp.owner) # PyNone
             THEN Outcome("IMAGE_FIX_NEEDED", FALSE, FALSE)
             ELSE Outcome("MANUAL_IMAGE_FIX_NEEDED", FALSE, FALSE)
        ELSE IF fix_type = "manual"
        THEN Outcome("MANUAL_ACTION_NEEDED", FALSE, FALSE)
        ELSE Outcome("MANUAL_REVIEW_NEEDED", FALSE, FALSE)

apply_fix(diagnosis, cp) ==
    LET fix_type == Get(diagnosis, "fix_type", "")
        is_managed == check_if_managed_pod(cp.check)
    IN  IF fix_type = "resources" THEN apply_fix_resources(cp)
        ELSE IF fix_type = "config"
        THEN Outcome("CONFIG_FIX_NEEDED", FALSE, FALSE)
        ELSE IF fix_type = "image"
        THEN IF get_pod_owner_deployment(cp.owner) # PyNone
             THEN Outcome("IMAGE_FIX_NEEDED", FALSE, FALSE)
             ELSE Outcome("MANUAL_IMAGE_FIX_NEEDED", FALSE, FALSE)
        ELSE IF fix_type = "app_code"
        THEN IF ~is_managed
             THEN Outcome("APP_CODE_FIX_NEEDED_NO_DELETE", FALSE, FALSE)
             ELSE IF ShouldRestart(diagnosis)
                  THEN DeletePod(cp.delete, "RESTARTED_FOR_LOGS")
                  ELSE Outcome("APP_CODE_FIX_NEEDED", FALSE, FALSE)
        ELSE IF fix_type = "restart" \/ ShouldRestart(diagnosis)
        THEN IF ~is_managed
             THEN Outcome("STANDALONE_POD_NO_DELETE", FALSE, FALSE)
             ELSE DeletePod(cp.delete, "RESTARTED")
        ELSE IF fix_type = "manual"
        THEN Outcome("MANUAL_ACTION_NEEDED", FALSE, FALSE)
        ELSE Outcome("MANUAL_REVIEW_NEEDED", FALSE, FALSE)

\* The answers the control plane can give to the calls that a dispatch of
\* this diagnosis makes; a call that is not made has no answer.
ControlPlaneFor(diagnosis) ==
    LET ft == Get(diagnosis, "fix_type", "")
        Owners == IF ft \in {"resources", "image"}
                  THEN OwnerAnswers ELSE {NotCalled}
        Reads(o) == IF ft = "resources" /\ o # NotCalled
                       /\ get_pod_owner_deployment(o) # PyNone
                    THEN PodReadAnswers ELSE {NotCalled}
        Patches(r) == IF r = "containers" THEN PatchAnswers ELSE {NotCalled}
        Deletes(c) ==
            IF apply_fix(diagnosis,
                         AnswersOf(c, NotCalled, NotCalled, NotCalled, NotCalled)).deleted
            THEN DeleteAnswers ELSE {NotCalled}
    IN  UNION { UNION { UNION { UNION {
            { AnswersOf(c, o, r, p, x) : x \in Deletes(c) }
          : p \in Patches(r) } : r \in Reads(o) } : o \in Owners }
          : c \in CheckAnswers }

NothingCalled == AnswersOf(NotCalled, NotCalled, NotCalled, NotCalled, NotCalled)

(***************************************************************************)
(* The resource patch.  A quantity string such as "128Mi" is its number    *)
(* and its suffix; cores without suffix are whole numbers here.            *)
(***************************************************************************)
Quantity(number, suffix) == [number |-> number, suffix |-> suffix]

\* limits.get("memory") / limits.get("cpu") when the key is absent
NoQuantity == Quantity(0, ABSENT)

\* str.endswith
EndsWith(s, suffix) ==
    /\ Len(s) >= Len(suffix)
    /\ SubSeq(s, Len(s) - Len(suffix) + 1, Len(s)) = suffix

MemoryDefault == 256
MemoryFloor == 512
CpuDefault == 500
CpuFloor == 500
EscalationFactor == 3
MiPerGi == 1024
MilliPerCore == 1000

parse_memory(mem_str) ==
    IF mem_str = NoQuantity THEN MemoryDefault
    ELSE IF EndsWith(mem_str.suffix, "Mi") THEN mem_str.number
    ELSE IF EndsWith(mem_str.suffix, "Gi") THEN mem_str.number * MiPerGi
    ELSE MemoryDefault

parse_cpu(cpu_str) ==
    IF cpu_str = NoQuantity THEN CpuDefault
    ELSE IF EndsWith(cpu_str.suffix, "m") THEN cpu_str.number
    ELSE cpu_str.number * MilliPerCore

\* Python's max of two numbers
Max(a, b) == IF a >= b THEN a ELSE b

\* the limits of containers[0] that kubectl get pod reports
Limits(memory, cpu) == [memory |-> memory, cpu |-> cpu]
NoLimits == Limits(NoQuantity, NoQuantity)

CurrentLimits ==
    { NoLimits,
      Limits(Quantity(128, "Mi"), Quantity(100, "m")),
      Limits(Quantity(256, "Mi"), Quantity(500, "m")),
      Limits(Quantity(1, "Gi"), Quantity(2, "")),
      Limits(Quantity(2, "G"), Quantity(100, "m")) }

\* the kubectl patch command of the resources branch: its resource kind,
\* the name it addresses and the resources of the patch document
PatchCommand(deployment, current_limits) ==
    LET current_mem == parse_memory(current_limits.memory)
        current_cpu == parse_cpu(current_limits.cpu)
        new_mem == Max(current_mem * EscalationFactor, MemoryFloor)
        new_cpu == Max(current_cpu * EscalationFactor, CpuFloor)
    IN  [kind     |-> "deployment",
         name     |-> deployment,
         limits   |-> Limits(Quantity(new_mem, "Mi"), Quantity(new_cpu, "m")),
         requests |-> Limits(Quantity(new_mem \div 2, "Mi"),
                             Quantity(new_cpu \div 2, "m"))]

NoPatchCommand ==
    [kind |-> NotCalled, name |-> NotCalled, limits |-> NoLimits,
     requests |-> NoLimits]

(***************************************************************************)
(* The snapshot and the problem detector.                                  *)
(***************************************************************************)
HIGH_RESTART_COUNT == 5

Container(waiting, lastTerminated, restartCount) ==
    [waiting |-> waiting, lastTerminated |-> lastTerminated,
     restartCount |-> restartCount]

Pod(namespace, name, phase, containerStatuses) ==
    [namespace |-> namespace, name |-> name, phase |-> phase,
     containerStatuses |-> containerStatuses]

Problem(namespace, pod, issue) ==
    [namespace |-> namespace, pod |-> pod, issue |-> issue]

\* the OOMKilled test chained to the CrashLoopBackOff test with elif
DetectContainerElif(namespace, name, c) ==
    IF c.waiting = "CrashLoopBackOff"
    THEN << Problem(namespace, name, "CrashLoopBackOff") >>
    ELSE IF c.lastTerminated = "OOMKilled"
    THEN << Problem(namespace, name, "OOMKilled") >>
    ELSE IF c.restartCount >= HIGH_RESTART_COUNT
    THEN << Problem(namespace, name, "HighRestartCount") >>
    ELSE << >>

\* the problems one pass of the container loop appends
DetectContainer(namespace, name, c) ==
    (IF c.waiting = "CrashLoopBackOff"
     THEN << Problem(namespace, name, "CrashLoopBackOff") >> ELSE << >>)
    \o (IF c.lastTerminated = "OOMKilled"
        THEN << Problem(namespace, name, "OOMKilled") >>
        ELSE IF c.restartCount >= HIGH_RESTART_COUNT
        THEN << Problem(namespace, name, "HighRestartCount") >>
        ELSE << >>)

RECURSIVE DetectContainers(_, _, _)
DetectContainers(namespace, name, cs) ==
    IF cs = << >> THEN << >>
    ELSE DetectContainer(namespace, name, Head(cs))
         \o DetectContainers(namespace, name, Tail(cs))

DetectPhase(namespace, name, phase) ==
    IF phase = "Pending" THEN << Problem(namespace, name, "PodPending") >>
    ELSE IF phase = "Failed" THEN << Problem(namespace, name, "PodFailed") >>
    ELSE IF phase = "Unknown" THEN << Problem(namespace, name, "PodUnknown") >>
    ELSE << >>

\* the pod loop without the skip of protected namespaces
DetectPodUnfiltered(pod) ==
    DetectContainers(pod.namespace, pod.name, pod.containerStatuses)
    \o DetectPhase(pod.namespace, pod.name, pod.phase)

\* the problems one pass of the pod loop appends
DetectPod(pod) ==
    IF pod.namespace \in PROTECTED_NAMESPACES THEN << >>
    ELSE DetectContainers(pod.namespace, pod.name, pod.containerStatuses)
         \o DetectPhase(pod.namespace, pod.name, pod.phase)

RECURSIVE detect_unhealthy_pods(_)
detect_unhealthy_pods(pods) ==
    IF pods = << >> THEN << >>
    ELSE DetectPod(Head(pods)) \o detect_unhealthy_pods(Tail(pods))

\* The snapshots get_pods can return: no pod (also what get_pods returns
\* when the request fails), or three pods of the same name in three
\* namespaces, the last of them protected.  The pod of the protected
\* namespace is unhealthy in every snapshot (in one of two ways), the others
\* are healthy or not.
Namespaces == << "default", "prod", "kube-system" >>
PodName == "web"

Statuses ==
    { [phase |-> "Running", containerStatuses |-> << Container(ABSENT, ABSENT, 0) >>],
      [phase |-> "Running",
       containerStatuses |-> << Container("CrashLoopBackOff", "Error", 1) >>],
      [phase |-> "Pending",
       containerStatuses |-> << Container(ABSENT, "OOMKilled", 1) >>] }

StatusesIn(namespace) ==
    IF namespace \in PROTECTED_NAMESPACES
    THEN { st \in Statuses : DetectContainers("", "", st.containerStatuses) # << >> }
    ELSE Statuses

RECURSIVE SnapshotsFrom(_)
SnapshotsFrom(i) ==
    IF i > Len(Namespaces) THEN { << >> }
    ELSE { << Pod(Namespaces[i], PodName, st.phase, st.containerStatuses) >> \o r :
             st \in StatusesIn(Namespaces[i]), r \in SnapshotsFrom(i + 1) }

Snapshots == { << >> } \cup SnapshotsFrom(1)

(***************************************************************************)
(* The restart policy.                                                     *)
(***************************************************************************)
Key(namespace, pod) == namespace \o "/" \o pod

Keys == { Key(Namespaces[i], PodName) : i \in 1..Len(Namespaces) }

Record(count, time) == [count |-> count, time |-> time]

\* restart_history.get(key, {"count": 0, "time": 0})
HistoryGet(history, key) ==
    IF key \in DOMAIN history THEN history[key] ELSE Record(0, 0)

\* restart_history[key] = record
HistoryPut(history, key, record) ==
    [k \in DOMAIN history \cup {key} |-> IF k = key THEN record ELSE history[k]]

\* the ceiling compared with > instead of >=
PolicyCheckCeilingOffByOne(record, now) ==
    IF record.count > MAX_RESTARTS THEN "MaxAttemptsReached"
    ELSE IF now - record.time < RESTART_COOLDOWN THEN "CooldownActive"
    ELSE "Allow"

\* the cooldown test left out
PolicyCheckNoCooldown(record, now) ==
    IF record.count >= MAX_RESTARTS THEN "MaxAttemptsReached"
    ELSE "Allow"

\* the ceiling forgotten once the cooldown has run out
PolicyCheckCeilingExpires(record, now) ==
    IF now - record.time < RESTART_COOLDOWN
    THEN IF record.count >= MAX_RESTARTS THEN "MaxAttemptsReached"
         ELSE "CooldownActive"
    ELSE "Allow"

\* the cooldown compared with <= instead of <
PolicyCheckCooldownInclusive(record, now) ==
    IF record.count >= MAX_RESTARTS THEN "MaxAttemptsReached"
    ELSE IF now - record.time <= RESTART_COOLDOWN THEN "CooldownActive"
    ELSE "Allow"

\* the elapsed time compared with the check interval
PolicyCheckShortCooldown(record, now) ==
    IF record.count >= MAX_RESTARTS THEN "MaxAttemptsReached"
    ELSE IF now - record.time < CHECK_INTERVAL THEN "CooldownActive"
    ELSE "Allow"

\* the two early returns of diagnose_and_fix_pod
PolicyCheck(record, now) ==
    IF record.count >= MAX_RESTARTS THEN "MaxAttemptsReached"
    ELSE IF now - record.time < RESTART_COOLDOWN THEN "CooldownActive"
    ELSE "Allow"

\* a shorter needle, which RESOURCES_FIXED contains too
IsRestartTagShortNeedle(action_taken) == Contains("RES", action_taken)

\* "RESTART" in action_taken
IsRestartTag(action_taken) == Contains("RESTART", action_taken)

\* the record written without the time of the attempt
NextRecordWithoutTime(record, now) == Record(record.count + 1, 0)

\* the record written after a restart
NextRecord(record, now) == Record(record.count + 1, now)

(***************************************************************************)
(* diagnose_and_fix_pod.                                                   *)
(***************************************************************************)
FallbackDiagnosis ==
    [fix_type |-> "restart", should_restart |-> "true", severity |-> "medium"]

\* an unavailable diagnosis handed on as a verdict without any field
DiagnosisOfNoFallback(answer) ==
    IF ~Truthy(answer) THEN [EmptyObject EXCEPT !.severity = "medium"]
    ELSE answer.obj

\* the diagnosis after "if not ai_diagnosis"
DiagnosisOf(answer) ==
    IF ~Truthy(answer) THEN FallbackDiagnosis ELSE answer.obj

\* the two prints of the diagnosis raise AttributeError: .get on a value
\* that is not a dict, .upper() on a severity that is null
PrintRaises(answer) ==
    /\ Truthy(answer)
    /\ \/ answer.type # "object"
       \/ Get(answer.obj, "severity", "unknown") = JNull

\* What the environment answers during one call that passes the policy
\* checks: the oracle's reply and the control plane's answers.
CallInputs ==
    UNION { LET answer == ask_ai_for_diagnosis(reply) IN
            IF PrintRaises(answer)
            THEN { [reply |-> reply, cp |-> NothingCalled, limits |-> NoLimits] }
            ELSE { [reply |-> reply, cp |-> in.cp, limits |-> in.limits] :
                     in \in UNION {
                        { [cp |-> cp, limits |-> limits] :
                            limits \in IF cp.podRead = "containers"
                                       THEN CurrentLimits ELSE {NoLimits} }
                        : cp \in ControlPlaneFor(DiagnosisOf(answer)) } }
          : reply \in OllamaReplies }

\* Lines 459-494 of diagnose_and_fix_pod, which do not read restart_history:
\* collect, ask the oracle, print, apply_fix, log_action.  tag is "" when
\* apply_fix was not reached.
Dispatch(in) ==
    LET answer == ask_ai_for_diagnosis(in.reply)
        printed == ~PrintRaises(answer)
        ai_diagnosis == DiagnosisOf(answer)
        cp == IF printed THEN in.cp ELSE NothingCalled
        out == IF printed THEN apply_fix(ai_diagnosis, cp)
               ELSE Outcome("", FALSE, FALSE)
    IN  [reply          |-> in.reply.kind,
         value          |-> in.reply.value.type,
         parsed         |-> IF answer = NoneValue THEN "unavailable"
                            ELSE IF answer.type = "object" THEN "object"
                            ELSE "other",
         verdict        |-> [fix_type |-> answer.obj.fix_type,
                             should_restart |-> answer.obj.should_restart],
         fallback       |-> ~Truthy(answer),
         dispatched     |-> printed,
         fix_type       |-> IF printed THEN ai_diagnosis.fix_type ELSE ABSENT,
         should_restart |-> IF printed THEN ai_diagnosis.should_restart
                            ELSE ABSENT,
         severity       |-> IF printed THEN ai_diagnosis.severity ELSE ABSENT,
         check          |-> cp.check,
         tag            |-> out.tag,
         deleted        |-> out.deleted,
         delete         |-> cp.delete,
         patched        |-> out.patched,
         owner          |-> cp.owner,
         podRead        |-> cp.podRead,
         patch          |-> cp.patch,
         limits         |-> in.limits,
         command        |-> IF out.patched
                            THEN PatchCommand(get_pod_owner_deployment(cp.owner),
                                              in.limits)
                            ELSE NoPatchCommand,
         logged         |-> printed /\ out.tag # Hangs]

\* a call that returned at a policy check did none of this
NotDispatched ==
    [reply |-> NotCalled, value |-> "null", parsed |-> "not_asked",
     verdict |-> [fix_type |-> ABSENT, should_restart |-> ABSENT],
     fallback |-> FALSE, dispatched |-> FALSE, fix_type |-> ABSENT,
     should_restart |-> ABSENT, severity |-> ABSENT, check |-> NotCalled,
     tag |-> "", deleted |-> FALSE, delete |-> NotCalled, patched |-> FALSE,
     owner |-> NotCalled, podRead |-> NotCalled, patch |-> NotCalled,
     limits |-> NoLimits, command |-> NoPatchCommand,
     logged |-> FALSE]

\* the part of a dispatch that the monitor loop's properties are about
Brief(d) ==
    [NotDispatched EXCEPT !.dispatched = d.dispatched, !.tag = d.tag,
                          !.deleted = d.deleted, !.patched = d.patched,
                          !.logged = d.logged]

Dispatches == { Dispatch(in) : in \in CallInputs }
BriefDispatches == { Brief(d) : d \in Dispatches }

\* a denied attempt counted like a restart
diagnose_and_fix_pod_CountsDenied(key, record, now, dispatch) ==
    LET decision == PolicyCheck(record, now)
        allowed == decision = "Allow"
        d == IF allowed THEN dispatch ELSE NotDispatched
        hung == d.dispatched /\ d.tag = Hangs
        \* "RESTART" in None raises TypeError
        typeError == d.dispatched /\ d.tag = PyNone
        restarted == d.dispatched /\ ~typeError /\ IsRestartTag(d.tag)
    IN  [key      |-> key,
         now      |-> now,
         decision |-> decision,
         did      |-> d,
         hung     |-> hung,
         raised   |-> (allowed /\ ~d.dispatched) \/ typeError,
         recorded |-> restarted \/ ~allowed,
         record   |-> IF restarted \/ ~allowed THEN NextRecord(record, now) ELSE record]

\* What one call of diagnose_and_fix_pod did, given what its dispatch does
\* when the policy checks let it happen, and the record it leaves for the key.
diagnose_and_fix_pod(key, record, now, dispatch) ==
    LET decision == PolicyCheck(record, now)
        allowed == decision = "Allow"
        d == IF allowed THEN dispatch ELSE NotDispatched
        hung == d.dispatched /\ d.tag = Hangs
        \* "RESTART" in None raises TypeError
        typeError == d.dispatched /\ d.tag = PyNone
        restarted == d.dispatched /\ ~typeError /\ IsRestartTag(d.tag)
    IN  [key      |-> key,
         now      |-> now,
         decision |-> decision,
         did      |-> d,
         hung     |-> hung,
         raised   |-> (allowed /\ ~d.dispatched) \/ typeError,
         recorded |-> restarted,
         record   |-> IF restarted THEN NextRecord(record, now) ELSE record]

NoReport ==
    [key |-> "", now |-> 0, decision |-> "none", did |-> NotDispatched,
     hung |-> FALSE, raised |-> FALSE,
     recorded |-> FALSE, record |-> Record(0, 0)]

VARIABLES
    clock,            \* time.time()
    restart_history,  \* the dict restart_history: key -> [count, time]
    pc,               \* where monitor is: "tick", "fixing", "sleep", or
                      \* "hung" in a call that never returns
    cycle,            \* number of cycles started
    pods,             \* the snapshot of the current cycle
    problems,         \* the problems of the cycle not yet processed
    deletes,          \* key -> number of kubectl delete pod calls issued
    last              \* what the latest diagnose_and_fix_pod call did

vars == << clock, restart_history, pc, cycle, pods, problems, deletes, last >>

Init ==
    /\ clock = StartTime
    /\ restart_history = [k \in {} |-> Record(0, 0)]
    /\ pc = "tick"
    /\ cycle = 0
    /\ pods = << >>
    /\ problems = << >>
    /\ deletes = [k \in Keys |-> 0]
    /\ last = NoReport

\* detect_and_fix up to its for loop, get_pods answering with one of the
\* snapshots
DetectAndFixOver(PossibleSnapshots) ==
    /\ pc = "tick"
    /\ cycle < MaxCycles
    /\ cycle' = cycle + 1
    /\ \E snapshot \in PossibleSnapshots :
          /\ pods' = snapshot
          /\ problems' = detect_unhealthy_pods(snapshot)
          /\ pc' = IF snapshot = << >> \/ problems' = << >>
                   THEN "sleep" ELSE "fixing"
    /\ UNCHANGED << clock, restart_history, deletes, last >>

DetectAndFix == DetectAndFixOver(Snapshots)

\* an exception that nothing catches ends the process
AfterCallUncaught(r, rest) ==
    IF r.hung THEN "hung"
    ELSE IF r.raised THEN "terminated"
    ELSE IF rest = << >> THEN "sleep" ELSE "fixing"

\* Where monitor is after one call of diagnose_and_fix_pod: blocked in the
\* call, in the except clause of monitor and then at time.sleep, or at the
\* next pass of the for loop.
AfterCall(r, rest) ==
    IF r.hung THEN "hung"
    ELSE IF r.raised THEN "sleep"
    ELSE IF rest = << >> THEN "sleep" ELSE "fixing"

\* One pass of the for loop of detect_and_fix: the call of
\* diagnose_and_fix_pod for the next problem.  A call that returns at a
\* policy check takes no time.  An exception leaves detect_and_fix and is
\* caught in monitor.
DiagnoseAndFixPodOver(PossibleDispatches) ==
    /\ pc = "fixing"
    /\ LET p == Head(problems)
           key == Key(p.namespace, p.pod)
           record == HistoryGet(restart_history, key)
           allowed == PolicyCheck(record, clock) = "Allow"
       IN  \E dispatch \in IF allowed THEN PossibleDispatches
                             ELSE {NotDispatched},
              duration \in IF allowed THEN AttemptDurations ELSE {0} :
              LET r == diagnose_and_fix_pod(key, record, clock, dispatch) IN
              /\ clock' = clock + duration
              /\ deletes' = IF r.did.deleted
                            THEN [deletes EXCEPT ![key] = @ + 1]
                            ELSE deletes
              /\ restart_history' =
                    IF r.recorded
                    THEN HistoryPut(restart_history, key, r.record)
                    ELSE restart_history
              /\ last' = r
              /\ problems' = IF r.hung THEN problems
                             ELSE IF r.raised THEN << >>
                             ELSE Tail(problems)
              /\ pc' = AfterCall(r, Tail(problems))
    /\ UNCHANGED << cycle, pods >>

DiagnoseAndFixPod == DiagnoseAndFixPodOver(BriefDispatches)

\* detect_and_fix has returned or raised, its locals are gone;
\* time.sleep(CHECK_INTERVAL) at the end of the while loop
Sleep ==
    /\ pc = "sleep"
    /\ clock' = clock + CHECK_INTERVAL
    /\ pc' = "tick"
    /\ pods' = << >>
    /\ problems' = << >>
    /\ last' = NoReport
    /\ UNCHANGED << restart_history, cycle, deletes >>

Next == DetectAndFix \/ DiagnoseAndFixPod \/ Sleep

Spec == Init /\ [][Next]_vars

(***************************************************************************)
(* The monitor loop over a cluster in which only the pod of the first      *)
(* namespace is ever flagged.  monitor is one thread that runs its next    *)
(* statement whenever it has one: time.sleep returns, and get_pods has a   *)
(* timeout and catches its errors.                                         *)
(***************************************************************************)
OneKeySnapshots ==
    { snapshot \in Snapshots :
        \A i \in 1..Len(detect_unhealthy_pods(snapshot)) :
            detect_unhealthy_pods(snapshot)[i].namespace = Namespaces[1] }

DetectAndFixOneKey == DetectAndFixOver(OneKeySnapshots)

NextLive == DetectAndFixOneKey \/ DiagnoseAndFixPod \/ Sleep

SpecLive == Init /\ [][NextLive]_vars /\ WF_vars(NextLive)

(***************************************************************************)
(* One call of diagnose_and_fix_pod observed in full: the oracle's reply,  *)
(* the verdict, the control plane's answers and the outcome.  The call     *)
(* starts in a state of the monitor loop in which the problem's key has no *)
(* record, a record inside or outside its cooldown window, or a record at  *)
(* the ceiling.                                                            *)
(***************************************************************************)
CallKey == Key(Namespaces[1], PodName)

CallSnapshot ==
    CHOOSE snapshot \in Snapshots :
        /\ Len(detect_unhealthy_pods(snapshot)) = 1
        /\ detect_unhealthy_pods(snapshot)[1].namespace = Namespaces[1]

CallStarts ==
    { [clock |-> StartTime, count |-> 0, time |-> 0],
      [clock |-> StartTime + CHECK_INTERVAL, count |-> 1, time |-> StartTime],
      [clock |-> StartTime + RESTART_COOLDOWN + CHECK_INTERVAL,
       count |-> 1, time |-> StartTime],
      [clock |-> StartTime + RESTART_COOLDOWN + CHECK_INTERVAL,
       count |-> MAX_RESTARTS, time |-> StartTime + RESTART_COOLDOWN] }

InitCall ==
    \E start \in CallStarts :
       /\ clock = start.clock
       /\ restart_history =
             IF start.count = 0 THEN [k \in {} |-> Record(0, 0)]
             ELSE [k \in {CallKey} |-> Record(start.count, start.time)]
       /\ pc = "fixing"
       /\ cycle = IF start.count = 0 THEN 1 ELSE 2
       /\ pods = CallSnapshot
       /\ problems = detect_unhealthy_pods(CallSnapshot)
       /\ deletes = [k \in Keys |-> IF k = CallKey THEN start.count ELSE 0]
       /\ last = NoReport

DiagnoseAndFixPodObserved == DiagnoseAndFixPodOver(Dispatches)

NextCall == DiagnoseAndFixPodObserved

SpecCall == InitCall /\ [][NextCall]_vars

(***************************************************************************)
(* The detection step of a cycle observed over every status one pod can    *)
(* report: each phase, no container, one container in each state, or two   *)
(* containers in the same state; in a namespace that is protected or not.  *)
(***************************************************************************)
DetectPhases ==
    {"Running", "Pending", "Failed", "Unknown", "Terminating", "Succeeded"}

DetectContainerStates ==
    { Container(waiting, lastTerminated, restartCount) :
        waiting \in {ABSENT, "CrashLoopBackOff", "ImagePullBackOff"},
        lastTerminated \in {ABSENT, "OOMKilled", "Error"},
        restartCount \in {0, HIGH_RESTART_COUNT} }

DetectContainerLists ==
    { << >> } \cup { << c >> : c \in DetectContainerStates }
              \cup { << c, c >> : c \in DetectContainerStates }

DetectSnapshots ==
    { << Pod(namespace, PodName, phase, cs) >> :
        namespace \in {Namespaces[1], Namespaces[3]},
        phase \in DetectPhases,
        cs \in DetectContainerLists }

DetectAndFixObserved == DetectAndFixOver(DetectSnapshots)

NextDetect == DetectAndFixObserved \/ Sleep

SpecDetect == Init /\ [][NextDetect]_vars

(***************************************************************************)
(* Properties.                                                             *)
(***************************************************************************)
ProtectedKeys == { k \in Keys : \E ns \in PROTECTED_NAMESPACES : k = Key(ns, PodName) }

\* the key of the problem that the next pass of the for loop handles
NextKey == Key(Head(problems).namespace, Head(problems).pod)

\* C1: for every key, the number of delete calls issued never exceeds
\* MAX_RESTARTS.
C1_RestartCeiling == \A k \in Keys : deletes[k] <= MAX_RESTARTS

\* a key was deleted MAX_RESTARTS times and a further attempt was turned down
C1_Witness ==
    /\ last.decision = "MaxAttemptsReached"
    /\ deletes[last.key] = MAX_RESTARTS

\* C2: a call for a key whose record is less than RESTART_COOLDOWN old
\* issues no delete for the key and leaves its record as it is.
C2_CooldownBlocksRestart ==
    [][\A k \in Keys :
          ( /\ pc = "fixing"
            /\ NextKey = k
            /\ k \in DOMAIN restart_history
            /\ clock - restart_history[k].time < RESTART_COOLDOWN )
          => /\ deletes'[k] = deletes[k]
             /\ restart_history'[k] = restart_history[k]]_vars

\* a key with one recorded restart was flagged again inside the window
C2_Witness ==
    /\ last.decision = "CooldownActive"
    /\ last.key \in DOMAIN restart_history
    /\ restart_history[last.key].count = 1
    /\ deletes[last.key] = 1

\* C4: no problem is ever listed for a pod of a protected namespace, and no
\* call of diagnose_and_fix_pod, delete or record is ever made for one.
C4_ProtectedNamespaces ==
    /\ \A i \in 1..Len(problems) :
          problems[i].namespace \notin PROTECTED_NAMESPACES
    /\ last.key \notin ProtectedKeys
    /\ \A k \in ProtectedKeys :
          deletes[k] = 0 /\ k \notin DOMAIN restart_history

\* the snapshot of the cycle holds an unhealthy pod of a protected namespace
\* while another pod of the same cycle was deleted
C4_Witness ==
    /\ \E i \in 1..Len(pods) :
          /\ pods[i].namespace \in PROTECTED_NAMESPACES
          /\ DetectContainers("", "", pods[i].containerStatuses) # << >>
    /\ last.did.deleted

\* C5: the count of a key never decreases, and it grows only by one and only
\* in a step that issues a delete for that key.
C5_CountMonotone ==
    [][\A k \in Keys :
          LET before == HistoryGet(restart_history, k).count
              after == HistoryGet(restart_history', k).count
          IN  /\ after >= before
              /\ after # before =>
                    /\ after = before + 1
                    /\ deletes'[k] = deletes[k] + 1]_vars

\* a second restart of a key was recorded
C5_Witness ==
    /\ last.recorded
    /\ last.did.deleted
    /\ restart_history[last.key].count = MAX_RESTARTS

\* C3: apply_fix issues a delete only if the ownership check reported the
\* pod as owned by a controller.
C3_DeleteOnlyIfManaged == last.did.deleted => last.did.check = "owned"

\* an app_code verdict asking for a restart met a failed ownership lookup
C3_Witness ==
    /\ last.did.dispatched
    /\ last.did.fix_type = "app_code"
    /\ last.did.should_restart = "true"
    /\ last.did.check = "failed"
    /\ ~last.did.deleted

\* C6: a rejected delete gives a tag that says FAILED and leaves the record
\* of the key as it was.
C6_FailedRestartNotCounted ==
    (last.did.deleted /\ last.did.delete = "rejected")
    => /\ Contains("FAILED", last.did.tag)
       /\ ~last.recorded

\* C7: an unavailable diagnosis is dispatched as the fallback verdict
\* (restart, should_restart, medium): a pod reported as owned is deleted
\* (with RESTARTED once kubectl delete has returned), any other gets
\* STANDALONE_POD_NO_DELETE.
C7_UnavailableFallsBack ==
    (last.decision = "Allow" /\ last.did.parsed = "unavailable")
    => /\ last.did.dispatched
       /\ last.did.logged \/ last.hung
       /\ last.did.fix_type = "restart"
       /\ last.did.should_restart = "true"
       /\ last.did.severity = "medium"
       /\ last.did.check = "owned"
             => /\ last.did.deleted
                /\ last.did.tag = IF last.did.delete = NoAnswer THEN Hangs
                                  ELSE "RESTARTED"
       /\ last.did.check # "owned"
             => ~last.did.deleted /\ last.did.tag = "STANDALONE_POD_NO_DELETE"

\* the request to the oracle failed and the owned pod was deleted
C7_Witness ==
    /\ last.did.reply = "transport_error"
    /\ last.did.check = "owned"
    /\ last.did.deleted
    /\ last.did.tag = "RESTARTED"
    /\ last.recorded

\* C8: a dispatched verdict that was parsed as an object without fix_type
\* and without should_restart gives MANUAL_REVIEW_NEEDED and no delete.
C8_AbsentFieldsAreSafe ==
    ( /\ last.did.dispatched
      /\ last.did.parsed = "object"
      /\ last.did.verdict.fix_type = ABSENT
      /\ last.did.verdict.should_restart = ABSENT )
    => /\ last.did.tag = "MANUAL_REVIEW_NEEDED"
       /\ ~last.did.deleted

\* C9: a reply without any JSON object is handled as an unavailable
\* diagnosis and raises nothing in diagnose_and_fix_pod.
C9_NoObjectIsUnavailable ==
    ( /\ last.decision = "Allow"
      /\ \/ last.did.reply \in {"prose", "broken"}
         \/ last.did.reply = "json" /\ last.did.value # "object" )
    => /\ last.did.fallback
       /\ ~last.raised

\* C10: a policy check made for the key at the time of the call that
\* recorded a restart answers CooldownActive.
C10_CooldownAfterRecord ==
    [][(pc = "fixing" /\ last'.recorded)
       => PolicyCheck(HistoryGet(restart_history', last'.key), clock)
             = "CooldownActive"]_vars

\* C10 as amended: the check is denied, with CooldownActive while the new
\* count is below MAX_RESTARTS and with MaxAttemptsReached once it is not.
C10_DeniedAfterRecord ==
    [][(pc = "fixing" /\ last'.recorded)
       => LET record == HistoryGet(restart_history', last'.key) IN
          PolicyCheck(record, clock)
             = IF record.count < MAX_RESTARTS THEN "CooldownActive"
               ELSE "MaxAttemptsReached"]_vars

\* a first restart was recorded by a call that took no time
C10_Witness ==
    /\ last.recorded
    /\ restart_history[last.key] = Record(1, clock)

\* C11: the decision of the policy gate follows the table: a key whose
\* count has reached MAX_RESTARTS is denied with MaxAttemptsReached whatever
\* time has passed, and a key without a record or whose recorded restart is
\* at least RESTART_COOLDOWN old is allowed exactly if its count is below
\* MAX_RESTARTS
C11_DecisionTable ==
    [][pc = "fixing"
       => LET key == NextKey
              record == HistoryGet(restart_history, key)
              cooled == \/ key \notin DOMAIN restart_history
                        \/ clock - record.time >= RESTART_COOLDOWN
          IN  /\ record.count >= MAX_RESTARTS
                 => last'.decision = "MaxAttemptsReached"
              /\ cooled => (last'.decision = "Allow"
                            <=> record.count < MAX_RESTARTS)]_vars

\* a key at the ceiling is denied although its cooldown has run out
C11_Witness ==
    /\ last.decision = "MaxAttemptsReached"
    /\ clock - restart_history[last.key].time >= RESTART_COOLDOWN

\* C12: between two remediation attempts against the same key at least
\* RESTART_COOLDOWN elapses, whatever the first attempt did
C12_CooldownBetweenAttempts ==
    [][(/\ pc = "fixing"
        /\ last.decision = "Allow"
        /\ last.key = NextKey
        /\ last'.decision = "Allow")
       => clock - last.now >= RESTART_COOLDOWN]_vars

\* C12 (amended): the cooldown runs from the start of an attempt that
\* restarted the instance: such an attempt is recorded with its start time,
\* no other attempt touches the record, and no attempt against a recorded
\* key passes the gate before RESTART_COOLDOWN has elapsed since that time
C12_CooldownAfterRestart ==
    [][pc = "fixing"
       => LET key == NextKey
          IN  /\ (last'.did.deleted /\ ~last'.hung) => last'.recorded
              /\ last'.recorded
                 => /\ key \in DOMAIN restart_history'
                    /\ restart_history'[key].time = clock
              /\ ~last'.recorded => restart_history' = restart_history
              /\ (last'.decision = "Allow" /\ key \in DOMAIN restart_history)
                 => clock - restart_history[key].time
                        >= RESTART_COOLDOWN]_vars

\* an attempt without restart is followed at once by another attempt
\* against the same key, and an attempt passes the gate of a recorded key
C12_Witness ==
    /\ last.decision = "Allow"
    /\ last.key \in DOMAIN restart_history
    /\ last.did.dispatched
    /\ ~last.recorded
    /\ last.now - restart_history[last.key].time >= RESTART_COOLDOWN
    /\ last.now - restart_history[last.key].time < 2 * RESTART_COOLDOWN

\* C13: resource escalation is rate-limited: when a controller patch has
\* been applied for a key, the next attempt against that key applies no
\* further patch before RESTART_COOLDOWN has elapsed since the start of
\* the attempt that applied the first one
C13_PatchesAreRateLimited ==
    [][(/\ pc = "fixing"
        /\ last.did.patched
        /\ last.did.tag = "RESOURCES_FIXED"
        /\ last.key = NextKey
        /\ last'.did.patched
        /\ last'.did.tag = "RESOURCES_FIXED")
       => clock - last.now >= RESTART_COOLDOWN]_vars

\* C14: a verdict with fix_type manual ends with MANUAL_ACTION_NEEDED and
\* issues no delete and no patch, whatever should_restart and ownership are
C14_ManualNeverActs ==
    (last.did.dispatched /\ last.did.fix_type = "manual")
    => /\ last.did.tag = "MANUAL_ACTION_NEEDED"
       /\ ~last.did.deleted
       /\ ~last.did.patched

\* C15: a verdict with fix_type config or image issues no patch and no
\* delete, whatever should_restart and ownership are; config ends with
\* CONFIG_FIX_NEEDED, image with IMAGE_FIX_NEEDED or MANUAL_IMAGE_FIX_NEEDED
C15_ConfigImageNeverApplied ==
    (last.did.dispatched /\ last.did.fix_type \in {"config", "image"})
    => /\ ~last.did.deleted /\ last.did.delete = NotCalled
       /\ ~last.did.patched /\ last.did.patch = NotCalled
       /\ last.did.fix_type = "config"
          => last.did.tag = "CONFIG_FIX_NEEDED"
       /\ last.did.fix_type = "image"
          => last.did.tag = IF get_pod_owner_deployment(last.did.owner) # PyNone
                            THEN "IMAGE_FIX_NEEDED"
                            ELSE "MANUAL_IMAGE_FIX_NEEDED"

\* an image verdict that asks for a restart of a managed pod is handed off
C15_Witness ==
    /\ last.did.dispatched
    /\ last.did.fix_type = "image"
    /\ last.did.should_restart = "true"
    /\ last.did.check = "owned"
    /\ last.did.tag = "IMAGE_FIX_NEEDED"

\* C16: an attempt whose verdict has fix_type config or manual leaves the
\* restart record of the key, count and time, as it was
C16_ConfigManualKeepRecord ==
    [][(/\ pc = "fixing"
        /\ last'.did.dispatched
        /\ last'.did.fix_type \in {"config", "manual"})
       => /\ ~last'.recorded
          /\ restart_history' = restart_history]_vars

\* C17: apply_fix returns an outcome tag on every path, never None, and a
\* resources verdict ends with RESOURCES_FIXED, RESOURCE_FIX_FAILED or
\* MANUAL_RESOURCE_FIX_NEEDED
C17_AlwaysATag ==
    (last.did.dispatched /\ ~last.hung)
    => /\ last.did.tag # PyNone
       /\ last.did.fix_type = "resources"
          => last.did.tag \in {"RESOURCES_FIXED", "RESOURCE_FIX_FAILED",
                               "MANUAL_RESOURCE_FIX_NEEDED"}

\* C18: an error raised while one problem is processed does not block the
\* others: the problems after it in the list of the cycle are still to be
\* processed in that cycle
C18_RaiseKeepsTheRest ==
    [][(pc = "fixing" /\ last'.raised)
       => problems' = Tail(problems)]_vars

\* C19: the loop survives a failing cycle: once a cycle has ended, by the
\* return of detect_and_fix or by an error raised in it, the next cycle
\* starts
C19_NextCycleStarts ==
    \A n \in 1..(MaxCycles - 1) :
        (cycle = n /\ (pc = "sleep" \/ last.raised)) ~> (cycle = n + 1)

\* a cycle started after a cycle that an error has ended
C19_Witness ==
    /\ cycle = MaxCycles
    /\ pc = "fixing"
    /\ restart_history = << >>
    /\ deletes[Key(Namespaces[1], PodName)] = 0
    /\ clock = StartTime + (MaxCycles - 1) * CHECK_INTERVAL

\* C20: every external call of a cycle is bounded by a timeout, so that
\* monitor is never blocked for ever in a call
C20_EveryCallReturns == pc # "hung"

\* C21: every attempt that passed the policy gate appends one audit entry
\* that carries the verdict and the outcome tag, whatever the outcome is
C21_AllowedIsAudited ==
    last.decision = "Allow"
    => /\ last.did.logged
       /\ last.did.tag \notin {"", PyNone, Hangs}

\* C22: a denied attempt does nothing: no diagnostics, no oracle call, no
\* ownership lookup, no patch, no delete, no audit entry, and the restart
\* records stay as they are
C22_DeniedDoesNothing ==
    [][(/\ pc = "fixing"
        /\ LET record == HistoryGet(restart_history, NextKey)
           IN  \/ record.count >= MAX_RESTARTS
               \/ clock - record.time < RESTART_COOLDOWN)
       => /\ last'.decision \in {"MaxAttemptsReached", "CooldownActive"}
          /\ last'.did = NotDispatched
          /\ ~last'.recorded
          /\ restart_history' = restart_history
          /\ deletes' = deletes
          /\ clock' = clock]_vars

\* an attempt inside the cooldown window returned at the policy gate
C22_Witness ==
    /\ last.decision = "CooldownActive"
    /\ last.did = NotDispatched
    /\ last.key \in DOMAIN restart_history
    /\ restart_history[last.key] = Record(1, StartTime)
    /\ deletes[last.key] = 1
    /\ clock = StartTime + CHECK_INTERVAL

\* the problems of the cycle that name the i-th pod of the snapshot
ProblemsOf(i) ==
    { j \in DOMAIN problems :
        /\ problems[j].namespace = pods[i].namespace
        /\ problems[j].pod = pods[i].name }

\* C24: a pod whose phase is Terminating yields no problem, whatever the
\* states of its containers are
C24_TerminatingIsNoProblem ==
    \A i \in DOMAIN pods :
        pods[i].phase = "Terminating" => ProblemsOf(i) = {}

\* the containers of the i-th pod whose last termination was OOMKilled, and
\* the problems with a given issue reported for that pod
OOMKilledContainers(i) ==
    { c \in DOMAIN pods[i].containerStatuses :
        pods[i].containerStatuses[c].lastTerminated = "OOMKilled" }

IssuesOf(i, issue) == { j \in ProblemsOf(i) : problems[j].issue = issue }

\* each container last terminated with OOMKilled gives one OOMKilled
\* problem, and a pod in an abnormal phase gives its phase problem as well
OOMKilledReported(i) ==
    /\ Cardinality(IssuesOf(i, "OOMKilled")) = Cardinality(OOMKilledContainers(i))
    /\ pods[i].phase = "Pending" => Cardinality(IssuesOf(i, "PodPending")) = 1
    /\ pods[i].phase = "Failed" => Cardinality(IssuesOf(i, "PodFailed")) = 1
    /\ pods[i].phase = "Unknown" => Cardinality(IssuesOf(i, "PodUnknown")) = 1

\* C25: every container whose last termination was OOMKilled gives an
\* OOMKilled problem, whatever the phase and the current container state,
\* and an abnormal phase gives its own problem in addition
C25_OOMKilledAlwaysDetected ==
    pc # "tick" => \A i \in DOMAIN pods : OOMKilledReported(i)

\* C25 (amended): the same for pods outside the protected namespaces; a pod
\* of a protected namespace gives no problem at all
C25_OOMKilledDetectedUnlessProtected ==
    pc # "tick"
    => \A i \in DOMAIN pods :
          IF pods[i].namespace \in PROTECTED_NAMESPACES
          THEN ProblemsOf(i) = {}
          ELSE OOMKilledReported(i)

\* a pending pod whose crash-looping container was OOMKilled before gives
\* the OOMKilled and the PodPending problem
C25_Witness ==
    /\ pc = "fixing"
    /\ Len(pods) = 1
    /\ pods[1].namespace \notin PROTECTED_NAMESPACES
    /\ pods[1].phase = "Pending"
    /\ pods[1].containerStatuses =
          << Container("CrashLoopBackOff", "OOMKilled", HIGH_RESTART_COUNT) >>
    /\ IssuesOf(1, "OOMKilled") # {}
    /\ IssuesOf(1, "PodPending") # {}
    /\ IssuesOf(1, "HighRestartCount") = {}

\* what a limit reported by the control plane amounts to, in Mi and in
\* millicores; G is 10^9 bytes and Mi is 2^20 bytes
SizeMi(memory) ==
    IF memory = NoQuantity THEN MemoryDefault
    ELSE IF memory.suffix = "Mi" THEN memory.number
    ELSE IF memory.suffix = "Gi" THEN memory.number * MiPerGi
    ELSE (memory.number * 1000 * 1000 * 1000) \div (MiPerGi * MiPerGi)

MilliCores(cpu) ==
    IF cpu = NoQuantity THEN CpuDefault
    ELSE IF cpu.suffix = "m" THEN cpu.number
    ELSE cpu.number * MilliPerCore

\* C26: the patch sets the limits to max(3 * current, floor), with 256 Mi
\* and 500 millicores taken for absent limits and floors of 512 Mi and 500
\* millicores, and the requests to half of the new limits; the new limits
\* are never below the current ones
C26_EscalationArithmetic ==
    last.did.patched
    => LET m == SizeMi(last.did.limits.memory)
           c == MilliCores(last.did.limits.cpu)
           new_m == Max(EscalationFactor * m, MemoryFloor)
           new_c == Max(EscalationFactor * c, CpuFloor)
       IN  /\ last.did.command.limits =
                 Limits(Quantity(new_m, "Mi"), Quantity(new_c, "m"))
           /\ last.did.command.requests =
                 Limits(Quantity(new_m \div 2, "Mi"), Quantity(new_c \div 2, "m"))
           /\ last.did.command.limits.memory.number >= m
           /\ last.did.command.limits.cpu.number >= c

\* the top-level controller that owns the pod, by what the owner lookups
\* answer
TopController(owner) ==
    CASE owner = "rs_of_deployment" ->
            [kind |-> "deployment", name |-> DeploymentName]
      [] owner = "rs_without_deployment" ->
            [kind |-> "replicaset", name |-> ReplicaSetName]
      [] owner = "statefulset" ->
            [kind |-> "statefulset", name |-> StatefulSetName]
      [] OTHER -> [kind |-> NotCalled, name |-> NotCalled]

\* C27: a patch call is addressed to the top-level controller that owns the
\* pod, with that controller's own kind and name
C27_PatchTarget ==
    last.did.patched
    => /\ last.did.command.kind = TopController(last.did.owner).kind
       /\ last.did.command.name = TopController(last.did.owner).name

\* C28: once the count of a key has reached MAX_RESTARTS its record never
\* changes again, and every later attempt against the key returns at the
\* policy gate: no diagnosis, no patch, no delete, no audit entry
C28_PermanentHandOff ==
    [][\A k \in Keys :
          HistoryGet(restart_history, k).count >= MAX_RESTARTS
          => /\ k \in DOMAIN restart_history'
             /\ restart_history'[k] = restart_history[k]
             /\ deletes'[k] = deletes[k]
             /\ (pc = "fixing" /\ NextKey = k)
                => /\ last'.decision = "MaxAttemptsReached"
                   /\ last'.did = NotDispatched
                   /\ ~last'.recorded]_vars

\* a key that reached the ceiling in one cycle is turned away in the next,
\* after its cooldown has run out
C28_Witness ==
    /\ cycle = MaxCycles
    /\ last.decision = "MaxAttemptsReached"
    /\ last.did = NotDispatched
    /\ restart_history[last.key].count = MAX_RESTARTS
    /\ deletes[last.key] = MAX_RESTARTS
    /\ last.now >= restart_history[last.key].time + RESTART_COOLDOWN
    /\ last.now = clock

====
